---- MODULE Spec2Model ----
(***************************************************************************)
(* State-machine model of the todo HTTP service: process start-up          *)
(* (src/main.rs), the six request handlers (src/api.rs) and the entity     *)
(* repository they call (crate::todo, modelled from the specification).    *)
(***************************************************************************)
EXTENDS Integers, Sequences, FiniteSets

\* ---------------------------------------------------------------- bounds
MaxId == 2          \* number of rows the store may ever allocate
MaxClock == 1       \* last clock instant
NumTasks == 2       \* concurrently running ping requests
MaxConns == 1       \* pool size (connections that may be checked out)

Ids == 1..MaxId
Tasks == 1..NumTasks
Bodies == {"a", "b"}

\* Option<T> is a sequence of length at most one.
OptNone == <<>>
OptSome(v) == <<v>>

\* ----------------------------------------------------------------- state
VARIABLES
  main_pc,      \* position of main(): see main.rs
  dbpool,       \* "none" | "open"      the sqlx pool
  schema,       \* "none" | "migrated"  the todos table
  listener,     \* "none" | "bound"     the TCP listener
  todos,        \* the todos table: sequence of rows in insertion order
  next_id,      \* the next id the table's auto-increment will assign
  now,          \* the store's clock
  checked_out,  \* connections currently checked out of the pool
  task,         \* task[t]: position of ping request t
  call,         \* the handler invocation completed by the last step
  resp,         \* the HTTP response produced by the last step
  issued,       \* history: ids returned by successful creates, in order
  live,         \* history: ids created and not deleted since
  deleted_ok    \* history: ids for which a delete returned 204

vars == <<main_pc, dbpool, schema, listener, todos, next_id, now,
          checked_out, task, call, resp, issued, live, deleted_ok>>

store_vars == <<todos, next_id>>
hist_vars == <<issued, live, deleted_ok>>
main_vars == <<main_pc, dbpool, schema, listener>>

\* ------------------------------------------------------------- data model
NoInput == [body |-> OptNone, completed |-> OptNone]

CreateTodo == [body : {OptSome(b) : b \in Bodies},
               completed : {OptNone, OptSome(TRUE), OptSome(FALSE)}]

UpdateTodo == [body : {OptNone} \cup {OptSome(b) : b \in Bodies},
               completed : {OptNone, OptSome(TRUE), OptSome(FALSE)}]

\* Errors of the repository other than RowNotFound.
StoreErrors == {"Database"}

NoCall == [op |-> "none", id |-> 0, input |-> NoInput, result |-> "none"]

NoResp == [code |-> 0, status |-> "", msg_fmt |-> "", msg_id |-> 0,
           msg_cause |-> "", todo |-> OptNone, has_notes |-> FALSE,
           notes |-> <<>>, count |-> 0]

RowIds(rows) == {rows[i].id : i \in DOMAIN rows}

RowOf(rows, id) == rows[CHOOSE i \in DOMAIN rows : rows[i].id = id]

\* ------------------------------------------------ repository (crate::todo)
OkResult == [ok |-> TRUE, err |-> "", todo |-> OptNone, rows |-> <<>>]

ErrResult(e) == [ok |-> FALSE, err |-> e, todo |-> OptNone, rows |-> <<>>]

\* Todo::list: all rows in the store's order.
Todo_list(f) ==
  IF f # "" THEN ErrResult(f) ELSE [OkResult EXCEPT !.rows = todos]

\* Todo::read: the row with this primary key, RowNotFound when absent.
Todo_read(id, f) ==
  IF f # "" THEN ErrResult(f)
  ELSE IF id \in RowIds(todos)
       THEN [OkResult EXCEPT !.todo = OptSome(RowOf(todos, id))]
       ELSE ErrResult("RowNotFound")

\* An insert that numbers the new row after the rows present.
NewRow_mut(input) ==
  [id |-> Len(todos) + 1,
   body |-> input.body[1],
   completed |-> IF input.completed = OptNone THEN FALSE
                 ELSE input.completed[1],
   created_at |-> now,
   updated_at |-> now]

\* The row an insert writes: generated id, defaulted completed, timestamps.
NewRow(input) ==
  [id |-> next_id,
   body |-> input.body[1],
   completed |-> IF input.completed = OptNone THEN FALSE
                 ELSE input.completed[1],
   created_at |-> now,
   updated_at |-> now]

\* Todo::create: insert and return the persisted row.
Todo_create(input, f) ==
  IF f # "" THEN ErrResult(f)
  ELSE [OkResult EXCEPT !.todo = OptSome(NewRow(input))]

\* An update that stamps both timestamps.
UpdatedRow_mut(row, input) ==
  [row EXCEPT !.body = IF input.body = OptNone THEN @ ELSE input.body[1],
              !.completed = IF input.completed = OptNone THEN @
                            ELSE input.completed[1],
              !.created_at = now,
              !.updated_at = now]

\* The row an update leaves: COALESCE of input and stored fields.
UpdatedRow(row, input) ==
  [row EXCEPT !.body = IF input.body = OptNone THEN @ ELSE input.body[1],
              !.completed = IF input.completed = OptNone THEN @
                            ELSE input.completed[1],
              !.updated_at = now]

\* Todo::update: update by primary key and return the resulting row.
Todo_update(id, input, f) ==
  IF f # "" THEN ErrResult(f)
  ELSE IF id \in RowIds(todos)
       THEN [OkResult EXCEPT
               !.todo = OptSome(UpdatedRow(RowOf(todos, id), input))]
       ELSE ErrResult("RowNotFound")

\* Todo::delete: remove by primary key; zero rows affected is not an error.
Todo_delete(id, f) ==
  IF f # "" THEN ErrResult(f) ELSE OkResult

\* The table after the statement of a successful call.
Inserted(row) == Append(todos, row)

Replaced(row) ==
  [i \in DOMAIN todos |-> IF todos[i].id = row.id THEN row ELSE todos[i]]

RECURSIVE Without(_, _)
Without(rows, id) ==
  IF rows = <<>> THEN <<>>
  ELSE IF Head(rows).id = id THEN Without(Tail(rows), id)
       ELSE <<Head(rows)>> \o Without(Tail(rows), id)

\* A repository call runs on a pooled connection: it completes without a
\* fault only when the pool can hand one out.
RepoOutcomes == {""} \cup StoreErrors

CanRun(f) == f # "" \/ checked_out < MaxConns

\* --------------------------------------------------- handlers (src/api.rs)
\* to_todo_response copying created_at into updated_at.
to_todo_response_mut(todo) ==
  [id |-> todo.id,
   body |-> todo.body,
   completed |-> todo.completed,
   created_at |-> todo.created_at,
   updated_at |-> todo.created_at]

to_todo_response(todo) ==
  [id |-> todo.id,
   body |-> todo.body,
   completed |-> todo.completed,
   created_at |-> todo.created_at,
   updated_at |-> todo.updated_at]

SuccessTodo(todo) ==
  [NoResp EXCEPT !.code = 200, !.status = "success",
                 !.todo = OptSome(to_todo_response(todo))]

DebugError(e) ==
  [NoResp EXCEPT !.code = 500, !.status = "error",
                 !.msg_fmt = "{:?}", !.msg_cause = e]

\* todo_list counting the rows before the last one is collected.
todo_list_response_mut(r) ==
  IF r.ok
  THEN [NoResp EXCEPT
          !.code = 200, !.status = "ok", !.has_notes = TRUE,
          !.notes = [i \in DOMAIN r.rows |-> to_todo_response(r.rows[i])],
          !.count = IF r.rows = <<>> THEN 0 ELSE Len(r.rows) - 1]
  ELSE [NoResp EXCEPT !.code = 500, !.status = "error",
                      !.msg_fmt = "Database error: {}", !.msg_cause = r.err]

todo_list_response(r) ==
  IF r.ok
  THEN [NoResp EXCEPT
          !.code = 200, !.status = "ok", !.has_notes = TRUE,
          !.notes = [i \in DOMAIN r.rows |-> to_todo_response(r.rows[i])],
          !.count = Len(r.rows)]
  ELSE [NoResp EXCEPT !.code = 500, !.status = "error",
                      !.msg_fmt = "Database error: {}", !.msg_cause = r.err]

\* todo_read without its RowNotFound arm.
todo_read_response_mut(id, r) ==
  IF r.ok THEN SuccessTodo(r.todo[1]) ELSE DebugError(r.err)

todo_read_response(id, r) ==
  IF r.ok THEN SuccessTodo(r.todo[1])
  ELSE IF r.err = "RowNotFound"
       THEN [NoResp EXCEPT !.code = 404, !.status = "fail",
                           !.msg_fmt = "todo with ID: {} not found",
                           !.msg_id = id]
       ELSE DebugError(r.err)

todo_create_response(r) ==
  IF r.ok THEN SuccessTodo(r.todo[1]) ELSE DebugError(r.err)

\* todo_update with a RowNotFound arm like todo_read's.
todo_update_response_mut(r) ==
  IF r.ok THEN SuccessTodo(r.todo[1])
  ELSE IF r.err = "RowNotFound"
       THEN [NoResp EXCEPT !.code = 404, !.status = "fail",
                           !.msg_fmt = "todo with ID: {} not found"]
       ELSE DebugError(r.err)

todo_update_response(r) ==
  IF r.ok THEN SuccessTodo(r.todo[1]) ELSE DebugError(r.err)

\* todo_delete answering 204 whatever the repository returned.
todo_delete_response_mut(r) == [NoResp EXCEPT !.code = 204]

todo_delete_response(r) ==
  IF r.ok THEN [NoResp EXCEPT !.code = 204] ELSE DebugError(r.err)

ResultKind(r) == IF r.ok THEN "Ok" ELSE r.err

\* The inputs a call is tried with: a call that fails with store error f
\* returns before its statement has used the input, and NoInput stands for
\* every input of such a call.
Inputs(dto, f) == IF f = "" THEN dto ELSE {NoInput}

\* No completed exchange is waiting to be written to its client.
Quiet == call = NoCall /\ resp = NoResp

Serving == main_pc = "serving" /\ Quiet

todo_list ==
  /\ Serving
  /\ \E f \in RepoOutcomes :
       /\ CanRun(f)
       /\ LET r == Todo_list(f) IN
            /\ resp' = todo_list_response(r)
            /\ call' = [NoCall EXCEPT !.op = "list", !.result = ResultKind(r)]
  /\ UNCHANGED <<main_vars, store_vars, now, checked_out, task, hist_vars>>

todo_read ==
  /\ Serving
  /\ \E id \in Ids, f \in RepoOutcomes :
       /\ CanRun(f)
       /\ LET r == Todo_read(id, f) IN
            /\ resp' = todo_read_response(id, r)
            /\ call' = [NoCall EXCEPT !.op = "read", !.id = id,
                                      !.result = ResultKind(r)]
  /\ UNCHANGED <<main_vars, store_vars, now, checked_out, task, hist_vars>>

todo_create ==
  /\ Serving
  /\ next_id <= MaxId
  /\ \E f \in RepoOutcomes : \E input \in Inputs(CreateTodo, f) :
       /\ CanRun(f)
       /\ LET r == Todo_create(input, f) IN
            /\ resp' = todo_create_response(r)
            /\ call' = [NoCall EXCEPT !.op = "create",
                                      !.input = input,
                                      !.result = ResultKind(r)]
            /\ IF r.ok
               THEN /\ todos' = Inserted(r.todo[1])
                    /\ next_id' = next_id + 1
                    /\ issued' = Append(issued, resp'.todo[1].id)
                    /\ live' = live \cup {resp'.todo[1].id}
               ELSE UNCHANGED <<todos, next_id, issued, live>>
  /\ UNCHANGED <<main_vars, now, checked_out, task, deleted_ok>>

todo_update ==
  /\ Serving
  /\ \E id \in Ids, f \in RepoOutcomes : \E input \in Inputs(UpdateTodo, f) :
       /\ CanRun(f)
       /\ LET r == Todo_update(id, input, f) IN
            /\ resp' = todo_update_response(r)
            /\ call' = [NoCall EXCEPT !.op = "update", !.id = id,
                                      !.input = input,
                                      !.result = ResultKind(r)]
            /\ todos' = IF r.ok THEN Replaced(r.todo[1]) ELSE todos
  /\ UNCHANGED <<main_vars, next_id, now, checked_out, task, hist_vars>>

todo_delete ==
  /\ Serving
  /\ \E id \in Ids, f \in RepoOutcomes :
       /\ CanRun(f)
       /\ LET r == Todo_delete(id, f) IN
            /\ resp' = todo_delete_response(r)
            /\ call' = [NoCall EXCEPT !.op = "delete", !.id = id,
                                      !.result = ResultKind(r)]
            /\ todos' = IF r.ok THEN Without(todos, id) ELSE todos
            /\ IF resp'.code = 204
               THEN /\ deleted_ok' = deleted_ok \cup {id}
                    /\ live' = live \ {id}
               ELSE UNCHANGED <<deleted_ok, live>>
  /\ UNCHANGED <<main_vars, next_id, now, checked_out, task, issued>>

\* ------------------------------------------------------------------- ping
\* ping is entered: the task is about to await dbpool.acquire().
ping_start(t) ==
  /\ Serving
  /\ task[t] = "idle"
  /\ task' = [task EXCEPT ![t] = "acquire"]
  /\ UNCHANGED <<main_vars, store_vars, now, checked_out, call, resp,
                 hist_vars>>

\* dbpool.acquire() hands out a connection when one is free.
ping_acquire_ok(t) ==
  /\ Quiet
  /\ task[t] = "acquire"
  /\ checked_out < MaxConns
  /\ checked_out' = checked_out + 1
  /\ task' = [task EXCEPT ![t] = "ping"]
  /\ UNCHANGED <<main_vars, store_vars, now, call, resp, hist_vars>>

\* dbpool.acquire() fails: map_err and `?` return 500 at once.
ping_acquire_err(t) ==
  /\ Quiet
  /\ task[t] = "acquire"
  /\ task' = [task EXCEPT ![t] = "idle"]
  /\ call' = [NoCall EXCEPT !.op = "ping", !.result = "PoolTimedOut"]
  /\ resp' = [NoResp EXCEPT !.code = 500, !.status = "error",
                            !.msg_fmt = "Pool acquire error: {}",
                            !.msg_cause = "PoolTimedOut"]
  /\ UNCHANGED <<main_vars, store_vars, now, checked_out, hist_vars>>

\* ping ignoring the result of the liveness check.
ping_response_mut(ok) == [NoResp EXCEPT !.code = 200, !.status = "healthy"]

ping_response(ok) ==
  IF ok
  THEN [NoResp EXCEPT !.code = 200, !.status = "healthy"]
  ELSE [NoResp EXCEPT !.code = 500, !.status = "error",
                      !.msg_fmt = "Database error: {}",
                      !.msg_cause = "Database"]

\* A connection that is kept when the liveness check fails.
ping_release_mut(ok) == IF ok THEN checked_out - 1 ELSE checked_out

\* Connections checked out after conn.ping() has returned `ok` and the
\* handler has returned: conn is dropped on both paths.
ping_release(ok) == checked_out - 1

\* conn.ping() completes, the response is built and conn goes out of scope.
ping_check(t) ==
  /\ Quiet
  /\ task[t] = "ping"
  /\ \E ok \in BOOLEAN :
       /\ resp' = ping_response(ok)
       /\ call' = [NoCall EXCEPT !.op = "ping",
                                 !.result = IF ok THEN "Ok" ELSE "Database"]
       /\ checked_out' = ping_release(ok)
  /\ task' = [task EXCEPT ![t] = "idle"]
  /\ UNCHANGED <<main_vars, store_vars, now, hist_vars>>

\* ------------------------------------------------------------------ clock
Tick ==
  /\ Quiet
  /\ now < MaxClock
  /\ now' = now + 1
  /\ UNCHANGED <<main_vars, store_vars, checked_out, task, call, resp,
                 hist_vars>>

\* ---------------------------------------------------------------- respond
\* The exchange completed by a handler is written to the client. The model
\* holds each completed exchange in call/resp until this step, and takes
\* this step before the next one of any handler.
respond ==
  /\ ~Quiet
  /\ call' = NoCall
  /\ resp' = NoResp
  /\ UNCHANGED <<main_vars, store_vars, now, checked_out, task, hist_vars>>

\* ------------------------------------------------------ start-up (main.rs)
\* A start-up step whose failure is ignored.
AfterStep_mut(ok, next_pc) == next_pc

\* The position main() reaches after a start-up step that returned `ok`.
AfterStep(ok, next_pc) == IF ok THEN next_pc ELSE "panicked"

StartupFrame ==
  UNCHANGED <<store_vars, now, checked_out, task, call, resp, hist_vars>>

\* init_dbpool: connect_with(..).await.expect(..)
init_dbpool_connect ==
  /\ main_pc = "connect"
  /\ \E ok \in BOOLEAN :
       /\ main_pc' = AfterStep(ok, "migrate")
       /\ dbpool' = IF ok THEN "open" ELSE dbpool
  /\ UNCHANGED <<schema, listener>>
  /\ StartupFrame

\* init_dbpool: sqlx::migrate!().run(&dbpool).await.expect(..)
init_dbpool_migrate ==
  /\ main_pc = "migrate"
  /\ \E ok \in BOOLEAN :
       /\ main_pc' = AfterStep(ok, "bind")
       /\ schema' = IF ok THEN "migrated" ELSE schema
  /\ UNCHANGED <<dbpool, listener>>
  /\ StartupFrame

\* main: create_router, then TcpListener::bind(..).await.expect(..)
main_bind ==
  /\ main_pc = "bind"
  /\ \E ok \in BOOLEAN :
       /\ main_pc' = AfterStep(ok, "serve")
       /\ listener' = IF ok THEN "bound" ELSE listener
  /\ UNCHANGED <<dbpool, schema>>
  /\ StartupFrame

\* main: axum::serve(listener, router) starts accepting requests.
main_serve ==
  /\ main_pc = "serve"
  /\ main_pc' = "serving"
  /\ UNCHANGED <<dbpool, schema, listener>>
  /\ StartupFrame

\* ---------------------------------------------------------- specification
\* Next is the whole service. StoreNext and PoolNext are its two workloads:
\* the steps of ping change the pool and the tasks only, and the todo
\* handlers read of the pool only whether it can hand out a connection
\* (CanRun), failing or waiting when it cannot.
Init ==
  /\ main_pc = "connect"
  /\ dbpool = "none"
  /\ schema = "none"
  /\ listener = "none"
  /\ todos = <<>>
  /\ next_id = 1
  /\ now = 0
  /\ checked_out = 0
  /\ task = [t \in Tasks |-> "idle"]
  /\ call = NoCall
  /\ resp = NoResp
  /\ issued = <<>>
  /\ live = {}
  /\ deleted_ok = {}

Next ==
  \/ init_dbpool_connect
  \/ init_dbpool_migrate
  \/ main_bind
  \/ main_serve
  \/ todo_list
  \/ todo_read
  \/ todo_create
  \/ todo_update
  \/ todo_delete
  \/ \E t \in Tasks : ping_start(t)
  \/ \E t \in Tasks : ping_acquire_ok(t)
  \/ \E t \in Tasks : ping_acquire_err(t)
  \/ \E t \in Tasks : ping_check(t)
  \/ Tick
  \/ respond

Spec == Init /\ [][Next]_vars

\* The store workload: start-up and the five todo handlers, no ping in
\* flight.
StoreNext ==
  \/ init_dbpool_connect
  \/ init_dbpool_migrate
  \/ main_bind
  \/ main_serve
  \/ todo_list
  \/ todo_read
  \/ todo_create
  \/ todo_update
  \/ todo_delete
  \/ Tick
  \/ respond

StoreSpec == Init /\ [][StoreNext]_vars

\* The pool workload: start-up, ping, and the handlers that leave every
\* stored row as it is or insert one.
PoolNext ==
  \/ init_dbpool_connect
  \/ init_dbpool_migrate
  \/ main_bind
  \/ main_serve
  \/ todo_list
  \/ todo_read
  \/ todo_create
  \/ \E t \in Tasks : ping_start(t)
  \/ \E t \in Tasks : ping_acquire_ok(t)
  \/ \E t \in Tasks : ping_acquire_err(t)
  \/ \E t \in Tasks : ping_check(t)
  \/ respond

PoolSpec == Init /\ [][PoolNext]_vars

TypeOK ==
  /\ main_pc \in {"connect", "migrate", "bind", "serve", "serving", "panicked"}
  /\ checked_out \in 0..MaxConns
  /\ next_id \in 1..(MaxId + 1)
  /\ now \in 0..MaxClock

\* ------------------------------------------------------------- properties
Range(q) == {q[i] : i \in DOMAIN q}

\* The step completes an invocation of handler `op`.
Done(op) == call = NoCall /\ call'.op = op

NotFound(id) ==
  [NoResp EXCEPT !.code = 404, !.status = "fail",
                 !.msg_fmt = "todo with ID: {} not found", !.msg_id = id]

\* C1: todo_read(id) has three outcomes, fixed by the repository result:
\* Ok - the id is in the store and the response is 200 "success" with that
\* Todo; RowNotFound - the id is not in the store and the response is 404
\* "fail" with "todo with ID: <id> not found"; any other error - 500
\* "error". The 404 response is a function of the id alone and a read leaves
\* the store as it is, so every read of an absent id that the repository
\* answers with RowNotFound gets the same 404 and message, the second as the
\* first.
C1_ReadOutcomes ==
  [][Done("read") =>
       LET id == call'.id
           res == call'.result
       IN /\ (res = "Ok") = (resp'.code = 200)
          /\ (res = "RowNotFound") = (resp'.code = 404)
          /\ (res \notin {"Ok", "RowNotFound"}) = (resp'.code = 500)
          /\ res = "Ok" =>
               /\ id \in RowIds(todos)
               /\ resp'.status = "success"
               /\ resp'.todo = OptSome(RowOf(todos, id))
          /\ res = "RowNotFound" =>
               /\ id \notin RowIds(todos)
               /\ resp' = NotFound(id)
          /\ resp'.code = 500 =>
               /\ resp'.status = "error"
               /\ resp'.msg_cause = res
          /\ (id \notin RowIds(todos) /\ res \notin StoreErrors) =>
               resp' = NotFound(id)
          /\ UNCHANGED <<todos, next_id>>]_vars

C1_Witness ==
  /\ call.op = "read"
  /\ call.id \notin RowIds(todos)
  /\ resp = NotFound(call.id)

\* C2 as claimed: once delete(X) has returned 204, every later read(X)
\* returns 404.
C2_Original ==
  [][(Done("read") /\ call'.id \in deleted_ok) => resp'.code = 404]_vars

\* C2 as amended: once delete(X) has returned 204 for an id X that a create
\* had returned before, no later read(X) returns 200: it returns 404, or 500
\* when the repository fails with a store error.
C2_DeletedStaysUnreadable ==
  [][(Done("read") /\ call'.id \in Range(issued) \ live) =>
       /\ call'.id \in deleted_ok
       /\ resp'.code \in {404, 500}
       /\ (resp'.code = 500) = (call'.result \in StoreErrors)]_vars

C2_Witness ==
  /\ call.op = "read"
  /\ call.id \in Range(issued) \ live
  /\ call.id \in deleted_ok
  /\ resp.code = 404
  /\ todos # <<>>

\* C3: the id returned by a successful create differs from the id returned
\* by every earlier successful create, deleted or not, and no two stored
\* rows have the same id.
C3_UniqueIds ==
  /\ \A i, j \in DOMAIN issued : i # j => issued[i] # issued[j]
  /\ \A i, j \in DOMAIN todos : i # j => todos[i].id # todos[j].id

C3_Witness ==
  /\ call.op = "create"
  /\ resp.code = 200
  /\ Len(issued) = 2
  /\ issued[1] \in deleted_ok
  /\ issued[1] \notin RowIds(todos)

\* C4: a successful update changes only the fields present in its input: an
\* absent body or completed keeps its stored value, id and created_at stay,
\* updated_at becomes the current time, every other row and the id counter
\* are untouched, and the response carries the resulting Todo.
C4_UpdateFrame ==
  [][(Done("update") /\ resp'.code = 200) =>
       LET id == call'.id
           input == call'.input
       IN /\ id \in RowIds(todos)
          /\ DOMAIN todos' = DOMAIN todos
          /\ \A i \in DOMAIN todos : todos[i].id # id => todos'[i] = todos[i]
          /\ next_id' = next_id
          /\ LET old == RowOf(todos, id)
                 new == RowOf(todos', id)
             IN /\ new.id = old.id
                /\ new.created_at = old.created_at
                /\ new.updated_at = now
                /\ new.body = IF input.body = OptNone THEN old.body
                              ELSE input.body[1]
                /\ new.completed = IF input.completed = OptNone
                                   THEN old.completed
                                   ELSE input.completed[1]
                /\ resp'.status = "success"
                /\ resp'.todo = OptSome(new)]_vars

C4_Witness ==
  /\ call.op = "update"
  /\ resp.code = 200
  /\ call.input = [body |-> OptNone, completed |-> OptSome(TRUE)]
  /\ resp.todo[1].body = "a"
  /\ resp.todo[1].completed
  /\ resp.todo[1].created_at < resp.todo[1].updated_at
  /\ Len(todos) = 2

\* C5: a successful list returns 200 "ok" with exactly the Todos created and
\* not deleted since, each once and with its current fields, and a count
\* equal to the length of that sequence.
C5_ListExact ==
  [][Done("list") =>
       /\ (resp'.code = 200) = (call'.result = "Ok")
       /\ resp'.code = 200 =>
            /\ resp'.status = "ok"
            /\ resp'.has_notes
            /\ resp'.count = Len(resp'.notes)
            /\ {resp'.notes[i].id : i \in DOMAIN resp'.notes} = live
            /\ Len(resp'.notes) = Cardinality(live)
            /\ \A i \in DOMAIN resp'.notes :
                 resp'.notes[i] = RowOf(todos, resp'.notes[i].id)
            /\ UNCHANGED <<todos, next_id>>]_vars

C5_Witness ==
  /\ call.op = "list"
  /\ resp.code = 200
  /\ resp.count = 1
  /\ deleted_ok # {}
  /\ Len(issued) = 2
  /\ resp.notes[1].created_at < resp.notes[1].updated_at

\* C6: every stored Todo has created_at <= updated_at; a row starts with
\* created_at = updated_at, its created_at never changes, and its updated_at
\* never moves back.
C6_RowTimes ==
  \A i \in DOMAIN todos : todos[i].created_at <= todos[i].updated_at

C6_Timestamps ==
  /\ []C6_RowTimes
  /\ [][todos' # todos => \A j \in DOMAIN todos' :
          LET new == todos'[j] IN
            IF new.id \in RowIds(todos)
            THEN /\ new.created_at = RowOf(todos, new.id).created_at
                 /\ new.updated_at >= RowOf(todos, new.id).updated_at
                 /\ (Done("update") /\ resp'.code = 200 /\ call'.id = new.id)
                      => new.updated_at = now
            ELSE /\ Done("create")
                 /\ new.created_at = new.updated_at
                 /\ new.created_at = now]_vars

C6_Witness ==
  /\ call.op = "update"
  /\ resp.code = 200
  /\ \E i \in DOMAIN todos :
       /\ todos[i].id = call.id
       /\ todos[i].created_at < todos[i].updated_at

\* C7: ping answers 200 {"status":"healthy"} exactly when the acquisition
\* and the liveness check both succeed; a failed acquisition answers 500
\* "error" straight from the acquire step, without reaching the liveness
\* check; a failed liveness check answers 500 "error"; no step of ping
\* changes a Todo.
C7_Ping ==
  [][/\ Done("ping") =>
          \E t \in Tasks :
            /\ task[t] # "idle"
            /\ task' = [task EXCEPT ![t] = "idle"]
            /\ (resp'.code = 200) = (task[t] = "ping" /\ call'.result = "Ok")
            /\ resp'.code = 200 =>
                 resp' = [NoResp EXCEPT !.code = 200, !.status = "healthy"]
            /\ resp'.code # 200 =>
                 /\ resp'.code = 500
                 /\ resp'.status = "error"
            /\ task[t] = "acquire" =>
                 /\ resp'.code = 500
                 /\ resp'.msg_fmt = "Pool acquire error: {}"
                 /\ checked_out' = checked_out
            /\ (task[t] = "ping" /\ call'.result # "Ok") =>
                 resp'.msg_fmt = "Database error: {}"
     /\ (task' # task) => UNCHANGED <<todos, next_id>>]_vars

C7_Witness ==
  /\ call.op = "ping"
  /\ resp.code = 500
  /\ resp.msg_fmt = "Database error: {}"
  /\ todos # <<>>

\* ------------------------------------------------------------- scheduling
\* The runtime polls every ready task, and the pool wakes its waiters in
\* turn: a step that is enabled again and again is taken.
Fairness ==
  /\ WF_vars(respond)
  /\ \A t \in Tasks : SF_vars(ping_check(t))
  /\ \A t \in Tasks : SF_vars(ping_acquire_ok(t))

FairPoolSpec == PoolSpec /\ Fairness

Holding == {t \in Tasks : task[t] = "ping"}

\* C8: the connections checked out are exactly those held by requests in
\* flight, never more than the pool has; when no request is in flight none
\* is checked out; a request waiting for a connection gets past the wait.
C8_PoolSafe ==
  /\ checked_out = Cardinality(Holding)
  /\ checked_out <= MaxConns
  /\ (\A t \in Tasks : task[t] = "idle") => checked_out = 0

C8_Pool ==
  /\ []C8_PoolSafe
  /\ \A t \in Tasks : (task[t] = "acquire") ~> (task[t] # "acquire")

C8_Witness ==
  /\ checked_out = MaxConns
  /\ \E t \in Tasks : task[t] = "acquire"
  /\ \E t \in Tasks : task[t] = "ping"

\* C9: only todo_read answers 404. list, create, update and delete answer
\* 500 "error" with the cause for every repository error, RowNotFound from
\* an update of an absent id included, and answer their success status (204
\* for delete, 200 otherwise) exactly when the repository returned Ok; the
\* process keeps serving after any request error.
C9_ErrorMapping ==
  [][/\ (call = NoCall /\ resp'.code = 404) => call'.op = "read"
     /\ (call = NoCall /\ call'.op \in {"list", "create", "update", "delete"}) =>
          /\ (call'.result = "Ok") =
               (resp'.code = IF call'.op = "delete" THEN 204 ELSE 200)
          /\ call'.result # "Ok" =>
               /\ resp'.code = 500
               /\ resp'.status = "error"
               /\ resp'.msg_cause = call'.result
               /\ UNCHANGED <<todos, next_id>>
     /\ (Done("update") /\ call'.id \notin RowIds(todos)) =>
          /\ resp'.code = 500
          /\ call'.result \in {"RowNotFound"} \cup StoreErrors
     /\ (call = NoCall /\ call' # NoCall) => main_pc' = "serving"]_vars

C9_Witness ==
  /\ call.op = "update"
  /\ call.result = "RowNotFound"
  /\ resp.code = 500
  /\ call.id \in deleted_ok

RequestSeen ==
  \/ call # NoCall
  \/ \E t \in Tasks : task[t] # "idle"
  \/ todos # <<>>
  \/ issued # <<>>
  \/ deleted_ok # {}

\* C10: start-up runs in order - store opened, migration run, listener
\* bound, requests served; a failure of any of the three ends the process
\* with no request served, and no request is handled before the migration
\* has succeeded.
C10_StartupOrder ==
  /\ schema = "migrated" => dbpool = "open"
  /\ listener = "bound" => schema = "migrated"
  /\ main_pc \in {"serve", "serving"} => listener = "bound"
  /\ main_pc = "bind" => schema = "migrated"
  /\ main_pc = "migrate" => dbpool = "open"
  /\ RequestSeen =>
       /\ main_pc = "serving"
       /\ dbpool = "open"
       /\ schema = "migrated"
       /\ listener = "bound"
  /\ main_pc = "panicked" => ~RequestSeen

C10_Witness ==
  /\ main_pc = "serving"
  /\ call.op = "create"
  /\ resp.code = 200
====
